---- MODULE Spec2Model ----
(***************************************************************************)
(* Model of the attendance / break accounting engine of the time tracker   *)
(* (src/src/OfficeTimeTracker.jsx, mounted under StrictMode by             *)
(* src/unnamed/part_000).                                                  *)
(*                                                                         *)
(* Instants are integers counting 30 second units since a local midnight   *)
(* (day 0, 00:00:00).  The component's useState cells, its ref, the three  *)
(* localStorage slots and the wall clock are the variables.  Every event   *)
(* handler is one action that includes the re-render it causes and the     *)
(* auto-save effect that re-render triggers.                               *)
(***************************************************************************)
EXTENDS Integers, Sequences, FiniteSets, TLC

(* ------------------------------ bounds -------------------------------- *)
\* number of grid instants the wall clock can reach
MaxTick == 5
\* number of break sessions recorded in one DayRecord
MaxBreaks == 2
\* number of times the user opens the edit modal
MaxEdits == 1

(* --------------------------- configuration ---------------------------- *)
NULL == -1
OFFICE_START == [hours |-> 9, minutes |-> 30]
BASE_BREAK_MINUTES == 60
REQUIRED_WORK_HOURS == 7

(* ------------------------------- time --------------------------------- *)
\* milliseconds in one unit of model time
UnitMs == 30 * 1000
UnitsPerDay == (24 * 60 * 60 * 1000) \div UnitMs

\* the instant h:m:s on the calendar day number d
At(d, h, m, s) == d * UnitsPerDay + (((h * 60 + m) * 60 + s) * 1000) \div UnitMs

\* times of day at which the wall clock is observed
DayPoints ==
  << At(0, 9, 15, 0), At(0, 11, 0, 0), At(0, 11, 40, 0), At(0, 17, 15, 0) >>

\* the i-th instant the wall clock shows: the times of DayPoints day after
\* day, read 30 seconds later on every following day
Grid(i) ==
  LET day == (i - 1) \div Len(DayPoints)
  IN day * UnitsPerDay + DayPoints[((i - 1) % Len(DayPoints)) + 1] + day

Max(a, b) == IF a >= b THEN a ELSE b

\* iso / fromIso: an instant as the millisecond UTC timestamp string and back
iso(d) == IF d = NULL THEN NULL ELSE d * UnitMs
fromIso(s) == IF s = NULL THEN NULL ELSE s \div UnitMs

\* minutesBetween without Math.max(0, ...)
minutesBetween_Signed(a, b) == ((b - a) * UnitMs) \div (1000 * 60)

\* minutesBetween rounding a started minute up (Math.ceil for Math.floor)
minutesBetween_Ceil(a, b) == Max(0, ((b - a) * UnitMs + 59999) \div (1000 * 60))

minutesBetween(a, b) == Max(0, ((b - a) * UnitMs) \div (1000 * 60))

\* new Date().toDateString(): the local calendar day of an instant
DateString(d) == d \div UnitsPerDay

\* Date.prototype.setHours(h, m, 0, 0) on a copy of base
SetHours(base, h, m) == At(DateString(base), h, m, 0)

\* getHours() / getMinutes() of an instant
GetHours(d) == ((d % UnitsPerDay) * UnitMs) \div (60 * 60 * 1000)
GetMinutes(d) == (((d % UnitsPerDay) * UnitMs) \div (60 * 1000)) % 60

VARIABLES
  tk,          \* index of the wall clock's instant in the grid
  punchIn, punchOut, breaks, onBreak, breakStart,   \* useState: the DayRecord
  editMode, editValue,                              \* useState: the edit modal
  summary,     \* useState: <<>> (null) or <<summary object>>
  history,     \* useState: sequence of archived days
  initedRef,   \* useRef: the load effect has run
  stRec,       \* localStorage[STORAGE_KEY]: <<>> (absent) or <<stored object>>
  stHist,      \* localStorage[HISTORY_KEY]: <<>> (absent) or <<stored array>>
  stDate,      \* localStorage[DATE_KEY]: NULL (absent) or a date string
  mounted,     \* the page is open and the component mounted
  mountScope,  \* the state values the mount render's callbacks close over
  edits,       \* how often the edit modal has been opened
  lastEvent    \* the event that happened last, the status it met, its outcome

dayVars == << punchIn, punchOut, breaks, onBreak, breakStart >>
storeVars == << stRec, stHist, stDate >>
vars == << tk, punchIn, punchOut, breaks, onBreak, breakStart, editMode,
           editValue, summary, history, initedRef, stRec, stHist, stDate,
           mounted, mountScope, edits, lastEvent >>

\* new Date(): the wall clock
Clock == Grid(tk)

\* useState `now`: setNow(new Date()) every second keeps it at the wall clock
now == Clock

(* ------------------------- records and helpers ------------------------ *)
EmptyDay ==
  [punchIn |-> NULL, punchOut |-> NULL, breaks |-> << >>, onBreak |-> FALSE,
   breakStart |-> NULL]

\* the DayRecord held by the current render
Live ==
  [punchIn |-> punchIn, punchOut |-> punchOut, breaks |-> breaks,
   onBreak |-> onBreak, breakStart |-> breakStart]

NoEdit == [type |-> "none", index |-> 0, field |-> "none"]
EmptyValue == [kind |-> "empty", hh |-> 0, mm |-> 0]

\* values the user can type into the edit field: a time, a text that is no
\* time, and nothing
EditInputs ==
  { [kind |-> "time", hh |-> 8, mm |-> 45],
    [kind |-> "text", hh |-> 0, mm |-> 0],
    EmptyValue }

\* brks.reduce((s, b) => s + (b.minutes || 0), 0)
RECURSIVE SumMinutes(_)
SumMinutes(brks) ==
  IF brks = << >> THEN 0 ELSE brks[1].minutes + SumMinutes(Tail(brks))

\* the object saveState serialises
Stored(r) ==
  [punchIn |-> iso(r.punchIn), punchOut |-> iso(r.punchOut),
   breaks |-> [i \in 1..Len(r.breaks) |->
                 [start |-> iso(r.breaks[i].start), end |-> iso(r.breaks[i].end),
                  minutes |-> r.breaks[i].minutes]],
   onBreak |-> r.onBreak, breakStart |-> iso(r.breakStart)]

\* the state the load effect sets from a stored object
Loaded(obj) ==
  [punchIn |-> fromIso(obj.punchIn), punchOut |-> fromIso(obj.punchOut),
   breaks |-> [i \in 1..Len(obj.breaks) |->
                 [start |-> fromIso(obj.breaks[i].start),
                  end |-> fromIso(obj.breaks[i].end),
                  minutes |-> obj.breaks[i].minutes]],
   onBreak |-> obj.onBreak, breakStart |-> fromIso(obj.breakStart)]

\* computeSummaryObject with the break minutes capped at the base allowance
computeSummaryObject_Capped(pIn, pOut, brks) ==
  IF pIn = NULL \/ pOut = NULL THEN << >>
  ELSE LET totalOfficeMinutes == minutesBetween(pIn, pOut)
           used == SumMinutes(brks)
           breakMinutes == IF used > BASE_BREAK_MINUTES
                           THEN BASE_BREAK_MINUTES ELSE used
       IN << [totalOfficeMinutes |-> totalOfficeMinutes,
              breakMinutes |-> breakMinutes,
              totalWork |-> Max(0, totalOfficeMinutes - breakMinutes),
              requiredMinutes |-> REQUIRED_WORK_HOURS * 60] >>

computeSummaryObject(pIn, pOut, brks) ==
  IF pIn = NULL \/ pOut = NULL THEN << >>
  ELSE LET totalOfficeMinutes == minutesBetween(pIn, pOut)
           breakMinutes == SumMinutes(brks)
       IN << [totalOfficeMinutes |-> totalOfficeMinutes,
              breakMinutes |-> breakMinutes,
              totalWork |-> Max(0, totalOfficeMinutes - breakMinutes),
              requiredMinutes |-> REQUIRED_WORK_HOURS * 60] >>

(* ------------------- early arrival and allowed break ------------------ *)
\* earlyArrivalMinutes counting the minutes after the office start
earlyArrivalMinutes_Late ==
  IF punchIn # NULL
  THEN Max(0, minutesBetween(
                SetHours(punchIn, OFFICE_START.hours, OFFICE_START.minutes), punchIn))
  ELSE 0

earlyArrivalMinutes ==
  IF punchIn # NULL
  THEN Max(0, minutesBetween(punchIn,
                SetHours(punchIn, OFFICE_START.hours, OFFICE_START.minutes)))
  ELSE 0

\* totalAllowedBreak without the early arrival minutes
totalAllowedBreak_BaseOnly == BASE_BREAK_MINUTES

totalAllowedBreak == BASE_BREAK_MINUTES + earlyArrivalMinutes

getTotalBreakUsed ==
  LET committed == SumMinutes(breaks)
  IN IF onBreak /\ breakStart # NULL
     THEN committed + minutesBetween(breakStart, now)
     ELSE committed

totalBreakUsed == getTotalBreakUsed
\* breakRemainingMinutes without Math.max(0, ...)
breakRemainingMinutes_Signed == totalAllowedBreak - totalBreakUsed

breakRemainingMinutes == Max(0, totalAllowedBreak - totalBreakUsed)
isBreakExceeded == totalBreakUsed > totalAllowedBreak
exceededMinutes == Max(0, totalBreakUsed - totalAllowedBreak)

getStatusBadge ==
  IF punchOut # NULL THEN "Day Complete"
  ELSE IF onBreak THEN "On Break"
  ELSE IF punchIn # NULL THEN "Working"
  ELSE "Not Started"

\* the callback op ran in the current state and ended with result
Event(op, result) == [op |-> op, from |-> getStatusBadge, result |-> result]

(* ------------------ rendering, saving and archiving ------------------- *)
\* the render after a callback with an auto-save effect that only saves
\* (no recalcSummary)
Render_NoRecalc(r, s, dirty, sr, sd, inited) ==
  /\ punchIn' = r.punchIn
  /\ punchOut' = r.punchOut
  /\ breaks' = r.breaks
  /\ onBreak' = r.onBreak
  /\ breakStart' = r.breakStart
  /\ summary' = s
  /\ IF dirty /\ inited
     THEN stRec' = << Stored(r) >> /\ stDate' = DateString(Clock)
     ELSE stRec' = sr /\ stDate' = sd

\* the render after a callback with an auto-save effect that does not save
Render_NoSave(r, s, dirty, sr, sd, inited) ==
  /\ punchIn' = r.punchIn
  /\ punchOut' = r.punchOut
  /\ breaks' = r.breaks
  /\ onBreak' = r.onBreak
  /\ breakStart' = r.breakStart
  /\ stRec' = sr
  /\ stDate' = sd
  /\ summary' = IF dirty /\ inited
                THEN computeSummaryObject(r.punchIn, r.punchOut, r.breaks)
                ELSE s

\* The render that follows a callback: the DayRecord becomes r, the summary
\* the callback set is s, the storage the callback left is sr and sd.  When
\* one of punchIn, punchOut, breaks, onBreak, breakStart was set to a new
\* value or object (dirty) the auto-save effect runs in that render: if
\* initedRef.current (inited), saveState and then recalcSummary.
Render(r, s, dirty, sr, sd, inited) ==
  /\ punchIn' = r.punchIn
  /\ punchOut' = r.punchOut
  /\ breaks' = r.breaks
  /\ onBreak' = r.onBreak
  /\ breakStart' = r.breakStart
  /\ IF dirty /\ inited
     THEN /\ stRec' = << Stored(r) >>
          /\ stDate' = DateString(Clock)
          /\ summary' = computeSummaryObject(r.punchIn, r.punchOut, r.breaks)
     ELSE /\ stRec' = sr
          /\ stDate' = sd
          /\ summary' = s

\* the state updates a callback has queued (day, summary, history; dirty when
\* a dependency of the auto-save effect was set) and the storage as it left it
Queue ==
  [day |-> Live, summary |-> summary, history |-> history, dirty |-> FALSE,
   stRec |-> stRec, stHist |-> stHist, stDate |-> stDate]

\* the values of the render whose callbacks are running
Scope ==
  [punchIn |-> punchIn, punchOut |-> punchOut, breaks |-> breaks,
   onBreak |-> onBreak, breakStart |-> breakStart, history |-> history]

\* archiveAndResetIfNeeded without the six state resets
archiveAndResetIfNeeded_NoReset(savedDate, sc, q) ==
  [q EXCEPT !.stDate = DateString(Clock), !.stRec = << >>]

\* archiveAndResetIfNeeded without the test for a punch or a break
archiveAndResetIfNeeded_NoGuard(savedDate, sc, q) ==
  LET record == [date |-> savedDate,
                 punchIn |-> iso(sc.punchIn),
                 punchOut |-> iso(sc.punchOut),
                 breaks |-> Stored(sc).breaks,
                 summary |-> computeSummaryObject(sc.punchIn, sc.punchOut, sc.breaks)]
      newHist == Append(sc.history, record)
  IN [q EXCEPT !.history = newHist, !.stHist = << newHist >>,
               !.day = EmptyDay, !.summary = << >>, !.dirty = TRUE,
               !.stDate = DateString(Clock), !.stRec = << >>]

\* archiveAndResetIfNeeded(savedDate), run by a callback that closes over the
\* values sc, on the queue q
archiveAndResetIfNeeded(savedDate, sc, q) ==
  LET record == [date |-> savedDate,
                 punchIn |-> iso(sc.punchIn),
                 punchOut |-> iso(sc.punchOut),
                 breaks |-> Stored(sc).breaks,
                 summary |-> computeSummaryObject(sc.punchIn, sc.punchOut, sc.breaks)]
      newHist == Append(sc.history, record)
      q1 == IF sc.punchIn # NULL \/ sc.punchOut # NULL \/ Len(sc.breaks) > 0
            THEN [q EXCEPT !.history = newHist, !.stHist = << newHist >>]
            ELSE q
  IN [q1 EXCEPT !.day = EmptyDay, !.summary = << >>, !.dirty = TRUE,
                !.stDate = DateString(Clock), !.stRec = << >>]

(* ------------------------------- start -------------------------------- *)
NoScope ==
  [punchIn |-> NULL, punchOut |-> NULL, breaks |-> << >>, onBreak |-> FALSE,
   breakStart |-> NULL, history |-> << >>]

\* a fresh browser profile: nothing stored, the component not yet mounted
Init ==
  /\ tk = 1
  /\ punchIn = NULL /\ punchOut = NULL /\ breaks = << >>
  /\ onBreak = FALSE /\ breakStart = NULL
  /\ editMode = NoEdit /\ editValue = EmptyValue
  /\ summary = << >> /\ history = << >>
  /\ initedRef = FALSE
  /\ stRec = << >> /\ stHist = << >> /\ stDate = NULL
  /\ mounted = FALSE
  /\ mountScope = NoScope
  /\ edits = 0
  /\ lastEvent = [op |-> "none", from |-> "Not Started", result |-> "none"]

(* ------------------------ mount and its effects ----------------------- *)
\* a stored DayRecord text that JSON.parse rejects
MalformedRecord ==
  [punchIn |-> -2, punchOut |-> NULL, breaks |-> << >>, onBreak |-> FALSE,
   breakStart |-> NULL]

\* a stored History text that JSON.parse rejects
MalformedHistory ==
  << [date |-> -2, punchIn |-> NULL, punchOut |-> NULL, breaks |-> << >>,
      summary |-> << >>] >>

\* the load effect, closing over sc, on the queue q: one try block, which an
\* exception of JSON.parse leaves for the catch, then the finally
LoadEffect(sc, q) ==
  LET today == DateString(Clock)
      recBad == q.stRec = << MalformedRecord >>
      histBad == ~recBad /\ q.stHist = << MalformedHistory >>
      q1 == IF q.stRec # << >> /\ ~recBad
            THEN [q EXCEPT !.day = Loaded(q.stRec[1]), !.dirty = TRUE]
            ELSE q
      q2 == IF q1.stHist # << >> /\ ~recBad /\ ~histBad
            THEN [q1 EXCEPT !.history = q1.stHist[1]]
            ELSE q1
      q3 == IF recBad \/ histBad THEN q2
            ELSE IF q2.stDate = NULL THEN [q2 EXCEPT !.stDate = today]
            ELSE IF q2.stDate # today
                 THEN archiveAndResetIfNeeded(q2.stDate, sc, q2)
                 ELSE q2
  IN \* finally: initedRef.current = true; recalcSummary()
     [q3 EXCEPT !.summary = computeSummaryObject(sc.punchIn, sc.punchOut, sc.breaks)]

\* saveState, closing over sc, on the queue q
saveState(sc, q) ==
  [q EXCEPT !.stRec = << Stored(sc) >>, !.stDate = DateString(Clock)]

\* the auto-save effect once initedRef is set, closing over sc
AutoSaveEffect(sc, q) ==
  [saveState(sc, q) EXCEPT
     !.summary = computeSummaryObject(sc.punchIn, sc.punchOut, sc.breaks)]

\* the effects of the mount render in their order: load, then auto-save
MountEffects(sc, q) == AutoSaveEffect(sc, LoadEffect(sc, q))

\* what the load effect does: it fails in JSON.parse, or finds a day marker
\* other than today and calls archiveAndResetIfNeeded, or neither
LoadResult ==
  IF stRec = << MalformedRecord >> \/ stHist = << MalformedHistory >> THEN "failed"
  ELSE IF stDate # NULL /\ stDate # DateString(Clock) THEN "rollover"
  ELSE "loaded"

\* The page is opened.  The first render holds the useState initial values;
\* its effects run in order (load, auto-save, the 60 s interval that keeps
\* `check` of this render); under StrictMode a development build cleans the
\* effects up and runs them a second time with the callbacks of the same
\* render (strict), a production build does not; then the queued state
\* updates are rendered, and the auto-save effect runs again if one of its
\* dependencies was set.
Mount ==
  /\ ~mounted
  /\ \E strict \in BOOLEAN :
       LET q1 == MountEffects(Scope, Queue)
           q == IF strict THEN MountEffects(Scope, q1) ELSE q1
       IN /\ Render(q.day, q.summary, q.dirty, q.stRec, q.stDate, TRUE)
          /\ history' = q.history
          /\ stHist' = q.stHist
  /\ initedRef' = TRUE
  /\ mountScope' = Scope
  /\ mounted' = TRUE
  /\ lastEvent' = Event("load", LoadResult)
  /\ UNCHANGED << tk, editMode, editValue, edits >>

\* the page is closed: the component state is gone, localStorage stays
Unmount ==
  /\ mounted
  /\ mounted' = FALSE
  /\ punchIn' = NULL /\ punchOut' = NULL /\ breaks' = << >>
  /\ onBreak' = FALSE /\ breakStart' = NULL
  /\ editMode' = NoEdit /\ editValue' = EmptyValue
  /\ summary' = << >> /\ history' = << >>
  /\ initedRef' = FALSE
  /\ mountScope' = NoScope
  /\ lastEvent' = Event("unmount", "ok")
  /\ UNCHANGED << tk, storeVars, edits >>

\* time passes; while the page is open the 1 s interval calls setNow
AdvanceClock ==
  /\ tk < MaxTick
  /\ tk' = tk + 1
  /\ lastEvent' = IF mounted THEN Event("setNow", "ok") ELSE lastEvent
  /\ UNCHANGED << dayVars, editMode, editValue, summary, history, initedRef,
                  storeVars, mounted, mountScope, edits >>

\* check without the comparison of the day marker, archiving without the test
\* for a punch or a break
MidnightCheck_AlwaysArchives ==
  /\ mounted
  /\ LET sc == mountScope
         record == [date |-> stDate, punchIn |-> iso(sc.punchIn),
                    punchOut |-> iso(sc.punchOut), breaks |-> Stored(sc).breaks,
                    summary |-> computeSummaryObject(sc.punchIn, sc.punchOut, sc.breaks)]
         newHist == Append(sc.history, record)
     IN /\ Render(EmptyDay, << >>, TRUE, << >>, DateString(Clock), initedRef)
        /\ history' = newHist
        /\ stHist' = << newHist >>
        /\ lastEvent' = Event("check", "rollover")
  /\ UNCHANGED << tk, editMode, editValue, initedRef, mounted, mountScope, edits >>

\* the 60 s interval of the mount render calls check
MidnightCheck ==
  /\ mounted
  /\ IF stDate # NULL /\ stDate # DateString(Clock)
     THEN LET q == archiveAndResetIfNeeded(stDate, mountScope, Queue)
          IN /\ Render(q.day, q.summary, q.dirty, q.stRec, q.stDate, initedRef)
             /\ history' = q.history
             /\ stHist' = q.stHist
             /\ lastEvent' = Event("check", "rollover")
     ELSE UNCHANGED << dayVars, summary, history, storeVars, lastEvent >>
  /\ UNCHANGED << tk, editMode, editValue, initedRef, mounted, mountScope, edits >>

(* -------------------------- punch and break --------------------------- *)
\* what no handler of the DayRecord touches
uiFrame == << tk, editMode, editValue, history, initedRef, stHist, mounted,
              mountScope, edits >>

\* a click on a disabled button, which runs no handler, or a handler that
\* returns after alert(msg) or after a declined confirm
Rejected(op, msg) ==
  /\ lastEvent' = Event(op, msg)
  /\ UNCHANGED << dayVars, summary, stRec, stDate >>

\* handlePunchIn without setBreaks([]) and setPunchOut(null)
handlePunchIn_KeepsDay ==
  /\ Render([Live EXCEPT !.punchIn = Clock, !.onBreak = FALSE, !.breakStart = NULL],
            << >>, TRUE, stRec, stDate, initedRef)
  /\ lastEvent' = Event("handlePunchIn", "ok")

handlePunchIn ==
  /\ Render([EmptyDay EXCEPT !.punchIn = Clock], << >>, TRUE, stRec, stDate, initedRef)
  /\ lastEvent' = Event("handlePunchIn", "ok")

\* the Punch In button: disabled={!!punchIn && !punchOut}
PunchInClick ==
  /\ mounted
  /\ IF punchIn # NULL /\ punchOut = NULL
     THEN Rejected("PunchInClick", "disabled")
     ELSE handlePunchIn
  /\ UNCHANGED uiFrame

\* handlePunchOut without the onBreak check
handlePunchOut_IgnoresBreak ==
  IF punchIn = NULL THEN Rejected("handlePunchOut", "Punch in first")
  ELSE /\ Render([Live EXCEPT !.punchOut = Clock],
                 computeSummaryObject(punchIn, Clock, breaks), TRUE,
                 stRec, stDate, initedRef)
       /\ lastEvent' = Event("handlePunchOut", "ok")

handlePunchOut ==
  IF punchIn = NULL THEN Rejected("handlePunchOut", "Punch in first")
  ELSE IF onBreak
       THEN Rejected("handlePunchOut", "End break before punching out")
       ELSE /\ Render([Live EXCEPT !.punchOut = Clock],
                      computeSummaryObject(punchIn, Clock, breaks), TRUE,
                      stRec, stDate, initedRef)
            /\ lastEvent' = Event("handlePunchOut", "ok")

\* the Punch Out button: disabled={!punchIn || !!punchOut}
PunchOutClick ==
  /\ mounted
  /\ IF punchIn = NULL \/ punchOut # NULL
     THEN Rejected("PunchOutClick", "disabled")
     ELSE handlePunchOut
  /\ UNCHANGED uiFrame

\* handleBreakIn refusing only when the allowance is exceeded (> for >=)
handleBreakIn_OffByOne ==
  IF punchIn = NULL THEN Rejected("handleBreakIn", "Punch in first")
  ELSE IF punchOut # NULL
       THEN Rejected("handleBreakIn", "Already punched out for the day")
  ELSE IF onBreak THEN Rejected("handleBreakIn", "Already on break")
  ELSE IF totalBreakUsed > totalAllowedBreak
       THEN Rejected("handleBreakIn", "No break remaining")
  ELSE /\ Render([Live EXCEPT !.onBreak = TRUE, !.breakStart = Clock],
                 summary, TRUE, stRec, stDate, initedRef)
       /\ lastEvent' = Event("handleBreakIn", "ok")

handleBreakIn ==
  IF punchIn = NULL THEN Rejected("handleBreakIn", "Punch in first")
  ELSE IF punchOut # NULL
       THEN Rejected("handleBreakIn", "Already punched out for the day")
  ELSE IF onBreak THEN Rejected("handleBreakIn", "Already on break")
  ELSE IF totalBreakUsed >= totalAllowedBreak
       THEN Rejected("handleBreakIn", "No break remaining")
  ELSE /\ Render([Live EXCEPT !.onBreak = TRUE, !.breakStart = Clock],
                 summary, TRUE, stRec, stDate, initedRef)
       /\ lastEvent' = Event("handleBreakIn", "ok")

\* the Break In button: disabled={!punchIn || !!punchOut || onBreak}
BreakInClick ==
  /\ mounted
  /\ Len(breaks) < MaxBreaks
  /\ IF punchIn = NULL \/ punchOut # NULL \/ onBreak
     THEN Rejected("BreakInClick", "disabled")
     ELSE handleBreakIn
  /\ UNCHANGED uiFrame

\* handleBreakOut refusing every break that exceeds the allowance
handleBreakOut_BlocksOverrun(confirmSubmit) ==
  IF ~onBreak \/ breakStart = NULL
  THEN Rejected("handleBreakOut", "Not currently on a break")
  ELSE LET end == Clock
           minutes == minutesBetween(breakStart, end)
           totalAfterBreak == SumMinutes(breaks) + minutes
       IN IF totalAfterBreak > totalAllowedBreak
          THEN Rejected("handleBreakOut", "Break limit exceeded")
          ELSE /\ Render([Live EXCEPT
                            !.breaks = Append(breaks,
                                [start |-> breakStart, end |-> end,
                                 minutes |-> minutes]),
                            !.onBreak = FALSE, !.breakStart = NULL],
                         summary, TRUE, stRec, stDate, initedRef)
               /\ lastEvent' = Event("handleBreakOut", "ok")

\* handleBreakOut putting the new session in front of the recorded ones
handleBreakOut_Prepends(confirmSubmit) ==
  IF ~onBreak \/ breakStart = NULL
  THEN Rejected("handleBreakOut", "Not currently on a break")
  ELSE LET end == Clock
           minutes == minutesBetween(breakStart, end)
           willExceed == SumMinutes(breaks) + minutes > totalAllowedBreak
       IN IF willExceed /\ ~confirmSubmit
          THEN Rejected("handleBreakOut", "cancelled")
          ELSE /\ Render([Live EXCEPT
                            !.breaks = << [start |-> breakStart, end |-> end,
                                           minutes |-> minutes] >> \o breaks,
                            !.onBreak = FALSE, !.breakStart = NULL],
                         summary, TRUE, stRec, stDate, initedRef)
               /\ lastEvent' =
                    Event("handleBreakOut", IF willExceed THEN "exceeded" ELSE "ok")

\* confirmSubmit is the answer of window.confirm, asked only if willExceed
handleBreakOut(confirmSubmit) ==
  IF ~onBreak \/ breakStart = NULL
  THEN Rejected("handleBreakOut", "Not currently on a break")
  ELSE LET end == Clock
           minutes == minutesBetween(breakStart, end)
           currentUsed == SumMinutes(breaks)
           totalAfterBreak == currentUsed + minutes
           willExceed == totalAfterBreak > totalAllowedBreak
       IN IF willExceed /\ ~confirmSubmit
          THEN Rejected("handleBreakOut", "cancelled")
          ELSE /\ Render([Live EXCEPT
                            !.breaks = Append(breaks,
                                [start |-> breakStart, end |-> end,
                                 minutes |-> minutes]),
                            !.onBreak = FALSE, !.breakStart = NULL],
                         summary, TRUE, stRec, stDate, initedRef)
               /\ lastEvent' =
                    Event("handleBreakOut", IF willExceed THEN "exceeded" ELSE "ok")

\* Break Out never disabled, with a handler that lacks its early return
BreakOutClick_Unguarded ==
  /\ mounted
  /\ Render([Live EXCEPT
               !.breaks = Append(breaks, [start |-> breakStart, end |-> Clock,
                                          minutes |-> 0]),
               !.onBreak = FALSE, !.breakStart = NULL],
            summary, TRUE, stRec, stDate, initedRef)
  /\ lastEvent' = Event("handleBreakOut", "ok")
  /\ UNCHANGED uiFrame

\* the Break Out button: disabled={!onBreak}
BreakOutClick ==
  /\ mounted
  /\ IF ~onBreak
     THEN Rejected("BreakOutClick", "disabled")
     ELSE \E confirmSubmit \in BOOLEAN : handleBreakOut(confirmSubmit)
  /\ UNCHANGED uiFrame

(* ------------------------------ editing ------------------------------- *)
formatTimeForInput(d) ==
  IF d = NULL THEN EmptyValue
  ELSE [kind |-> "time", hh |-> GetHours(d), mm |-> GetMinutes(d)]

\* null when the hour or the minute does not parse
parseInputToDate(timeString, baseDate) ==
  IF timeString.kind = "time"
  THEN SetHours(baseDate, timeString.hh, timeString.mm)
  ELSE NULL

\* what no handler of the edit modal touches besides the DayRecord
editFrame == << tk, history, initedRef, stHist, mounted, mountScope >>

\* the pencil buttons: punch in and punch out have one while they are set,
\* every listed break has one per endpoint (index counts from 1 here)
beginEdit(payload) ==
  /\ mounted
  /\ editMode' = payload
  /\ editValue' =
       IF payload.type = "punchIn" /\ punchIn # NULL
       THEN formatTimeForInput(punchIn)
       ELSE IF payload.type = "punchOut" /\ punchOut # NULL
       THEN formatTimeForInput(punchOut)
       ELSE IF payload.type = "break"
       THEN formatTimeForInput(IF payload.field = "start"
                               THEN breaks[payload.index].start
                               ELSE breaks[payload.index].end)
       ELSE EmptyValue
  /\ lastEvent' = Event("beginEdit", payload.type)
  /\ edits' = edits + 1
  /\ UNCHANGED << dayVars, summary, stRec, stDate >>
  /\ UNCHANGED editFrame

BeginEditClick ==
  /\ edits < MaxEdits
  /\ \/ punchIn # NULL /\ beginEdit([type |-> "punchIn", index |-> 0, field |-> "none"])
     \/ punchOut # NULL /\ beginEdit([type |-> "punchOut", index |-> 0, field |-> "none"])
     \/ \E i \in 1..Len(breaks), f \in {"start", "end"} :
           beginEdit([type |-> "break", index |-> i, field |-> f])

cancelEdit ==
  /\ editMode' = NoEdit
  /\ editValue' = EmptyValue

CancelEditClick ==
  /\ mounted
  /\ editMode # NoEdit
  /\ cancelEdit
  /\ lastEvent' = Event("cancelEdit", "ok")
  /\ UNCHANGED << dayVars, summary, stRec, stDate, edits >>
  /\ UNCHANGED editFrame

\* brks with the endpoint field of session idx set to newDate and its minutes
\* recomputed
EditedBreaks(brks, idx, field, newDate) ==
  LET b == brks[idx]
      st == IF field = "start" THEN newDate ELSE b.start
      en == IF field = "start" THEN b.end ELSE newDate
  IN [brks EXCEPT ![idx] =
        [start |-> st, end |-> en,
         minutes |-> IF st # NULL /\ en # NULL THEN minutesBetween(st, en) ELSE 0]]

\* saveEdit with the edit field holding value
saveEdit(value) ==
  IF value.kind = "empty"
  THEN /\ cancelEdit
       /\ lastEvent' = Event("saveEdit", "empty")
       /\ UNCHANGED << dayVars, summary, stRec, stDate >>
  ELSE
    /\ cancelEdit
    /\ lastEvent' =
         Event("saveEdit", IF value.kind = "time" THEN editMode.type ELSE "unparsed")
    /\ IF editMode.type = "punchIn"
       THEN LET newDate == parseInputToDate(value,
                              IF punchIn # NULL THEN punchIn ELSE Clock)
            IN Render([Live EXCEPT !.punchIn = newDate],
                      IF punchOut # NULL
                      THEN computeSummaryObject(newDate, punchOut, breaks)
                      ELSE summary,
                      newDate # NULL \/ punchIn # NULL, stRec, stDate, initedRef)
       ELSE IF editMode.type = "punchOut"
       THEN LET newDate == parseInputToDate(value,
                              IF punchOut # NULL THEN punchOut ELSE Clock)
            IN Render([Live EXCEPT !.punchOut = newDate],
                      IF punchIn # NULL
                      THEN computeSummaryObject(punchIn, newDate, breaks)
                      ELSE summary,
                      newDate # NULL \/ punchOut # NULL, stRec, stDate, initedRef)
       ELSE LET idx == editMode.index
                newDate == parseInputToDate(value, Clock)
                found == idx \in 1..Len(breaks)
            IN Render(IF found
                      THEN [Live EXCEPT !.breaks =
                              EditedBreaks(breaks, idx, editMode.field, newDate)]
                      ELSE Live,
                      IF punchIn # NULL /\ punchOut # NULL
                      THEN computeSummaryObject(punchIn, punchOut, breaks)
                      ELSE summary,
                      found, stRec, stDate, initedRef)

\* The Save button of the modal, shown while editMode is set.  The field
\* holds what beginEdit put there, or what the user has typed over it since
\* (onChange: setEditValue).
SaveEditClick ==
  /\ mounted
  /\ editMode # NoEdit
  /\ \E value \in {editValue} \cup EditInputs : saveEdit(value)
  /\ UNCHANGED << editFrame, edits >>

(* -------------------------- delete and clear -------------------------- *)
\* a filter that also drops every session after index
WithoutIndex_DropsTail(brks, index) == SubSeq(brks, 1, index - 1)

\* prev.filter((_, i) => i !== index)
WithoutIndex(brks, index) ==
  [i \in 1..(Len(brks) - 1) |-> IF i < index THEN brks[i] ELSE brks[i + 1]]

\* the trash button of break session index; answer is window.confirm's
deleteBreak(index, answer) ==
  IF ~answer THEN Rejected("deleteBreak", "cancelled")
  ELSE /\ Render([Live EXCEPT !.breaks = WithoutIndex(breaks, index)],
                 summary, TRUE, stRec, stDate, initedRef)
       /\ lastEvent' = Event("deleteBreak", "ok")

DeleteBreakClick ==
  /\ mounted
  /\ \E index \in 1..Len(breaks), answer \in BOOLEAN : deleteBreak(index, answer)
  /\ UNCHANGED uiFrame

clearToday(answer) ==
  IF ~answer THEN Rejected("clearToday", "cancelled")
  ELSE /\ Render(EmptyDay, << >>, TRUE, << >>, stDate, initedRef)
       /\ lastEvent' = Event("clearToday", "ok")

ClearTodayClick ==
  /\ mounted
  /\ \E answer \in BOOLEAN : clearToday(answer)
  /\ UNCHANGED uiFrame

clearAll(answer) ==
  IF ~answer
  THEN /\ Rejected("clearAll", "cancelled")
       /\ UNCHANGED << history, stHist >>
  ELSE /\ Render(EmptyDay, << >>, TRUE, << >>, NULL, initedRef)
       /\ history' = << >>
       /\ stHist' = << >>
       /\ lastEvent' = Event("clearAll", "ok")

ClearAllClick ==
  /\ mounted
  /\ \E answer \in BOOLEAN : clearAll(answer)
  /\ UNCHANGED << tk, editMode, editValue, initedRef, mounted, mountScope, edits >>

(* --------------------------- specification ---------------------------- *)
Next ==
  \/ Mount
  \/ Unmount
  \/ AdvanceClock
  \/ MidnightCheck
  \/ PunchInClick
  \/ PunchOutClick
  \/ BreakInClick
  \/ BreakOutClick
  \/ BeginEditClick
  \/ CancelEditClick
  \/ SaveEditClick
  \/ DeleteBreakClick
  \/ ClearTodayClick
  \/ ClearAllClick

Spec == Init /\ [][Next]_vars

(* ===================================================================== *)
(* Properties                                                            *)
(* ===================================================================== *)

\* The four states of the attendance state machine, read off the DayRecord:
\* ON_BREAK is the onBreak flag, COMPLETED a set punchOut, WORKING a set
\* punchIn with neither.
State ==
  IF onBreak THEN "ON_BREAK"
  ELSE IF punchOut # NULL THEN "COMPLETED"
  ELSE IF punchIn # NULL THEN "WORKING"
  ELSE "NOT_STARTED"

\* a DayRecord with a punch or a break
HasData(r) == r.punchIn # NULL \/ r.punchOut # NULL \/ Len(r.breaks) > 0

\* the HistoryEntry of day d for the DayRecord r
HistoryEntry(d, r) ==
  [date |-> d, punchIn |-> iso(r.punchIn), punchOut |-> iso(r.punchOut),
   breaks |-> Stored(r).breaks,
   summary |-> computeSummaryObject(r.punchIn, r.punchOut, r.breaks)]

\* the stored History sequence, empty when the slot is absent
StoredHistory == IF stHist = << >> THEN << >> ELSE stHist[1]

\* the stored day marker is set and is not the current calendar day
DayMismatch == stDate # NULL /\ stDate # DateString(Clock)

\* C1: when the page is opened with a stored day marker D that is not today
\* and a stored DayRecord holding a punch or a break, History after startup
\* is the stored History with one HistoryEntry for D and that record appended.
C1_StartupArchivesStoredDay ==
  [][(Mount /\ DayMismatch /\ stRec # << >> /\ HasData(Loaded(stRec[1])))
       => /\ history' = Append(StoredHistory, HistoryEntry(stDate, Loaded(stRec[1])))
          /\ stHist' = << history' >>]_vars

\* C2: when the periodic check fires with a day marker D that is not today
\* while the live DayRecord holds a punch or a break, the live record is
\* appended to History as the HistoryEntry of D, and the record is reset.
C2_PeriodicArchivesLiveDay ==
  [][(MidnightCheck /\ DayMismatch /\ HasData(Live))
       => /\ history' = Append(history, HistoryEntry(stDate, Live))
          /\ stHist' = << history' >>
          /\ Live' = EmptyDay]_vars

\* C3: a press of Punch In while WORKING or ON_BREAK leaves punchIn, punchOut,
\* breaks, onBreak and breakStart unchanged.
C3_PunchInRejectedWhileOpen ==
  [][(PunchInClick /\ State \in {"WORKING", "ON_BREAK"}) => UNCHANGED dayVars]_vars

\* this break would take the committed break minutes over the allowance
WillExceed ==
  SumMinutes(breaks) + minutesBetween(breakStart, Clock) > totalAllowedBreak

\* the DayRecord after the break in progress is committed now
BreakCommitted ==
  /\ breaks' = Append(breaks, [start |-> breakStart, end |-> Clock,
                               minutes |-> minutesBetween(breakStart, Clock)])
  /\ onBreak' = FALSE
  /\ breakStart' = NULL
  /\ punchIn' = punchIn
  /\ punchOut' = punchOut

\* C4 as claimed: Break Out in ON_BREAK always appends a BreakSession and
\* clears onBreak and breakStart, whatever the allowance.
C4_BreakOutAlwaysCommits ==
  [][(BreakOutClick /\ State = "ON_BREAK")
       => (Len(breaks') = Len(breaks) + 1 /\ ~onBreak' /\ breakStart' = NULL)]_vars

\* C4 amended: Break Out in ON_BREAK appends the BreakSession and clears
\* onBreak and breakStart when the break stays within the allowance, and when
\* it does not and the user confirms; the only case in which it does not is
\* an overrun the user declines to submit, and then the DayRecord is unchanged.
C4_BreakOutCommitsUnlessDeclined ==
  [][(BreakOutClick /\ State = "ON_BREAK")
       => IF lastEvent'.result = "cancelled"
          THEN WillExceed /\ UNCHANGED dayVars
          ELSE BreakCommitted]_vars

\* C4 witness: a break was committed that took the total over the allowance,
\* on top of an earlier session
C4_Witness ==
  /\ mounted
  /\ lastEvent.op = "handleBreakOut" /\ lastEvent.result = "exceeded"
  /\ Len(breaks) = 2 /\ breaks[1].minutes > 0
  /\ ~onBreak /\ breakStart = NULL
  /\ SumMinutes(breaks) > totalAllowedBreak

\* C5: Punch Out is accepted exactly in WORKING: there it sets punchOut to the
\* current instant, keeps punchIn and breaks, and leaves a COMPLETED day with
\* a summary; in every other state the DayRecord and the summary are unchanged.
C5_PunchOutOnlyWhileWorking ==
  [][PunchOutClick
       => IF State = "WORKING"
          THEN /\ punchOut' = Clock
               /\ punchIn' = punchIn /\ breaks' = breaks
               /\ State' = "COMPLETED"
               /\ summary' # << >>
          ELSE UNCHANGED << dayVars, summary >>]_vars

\* C5 witness: a punch-out was accepted on a day with a recorded break
C5_Witness ==
  /\ mounted
  /\ lastEvent.op = "handlePunchOut" /\ lastEvent.result = "ok"
  /\ punchOut = Clock /\ punchIn # NULL /\ Len(breaks) > 0
  /\ summary # << >>

\* C6: Break In is accepted exactly when the state is WORKING and the break
\* minutes used are below the allowance: then only onBreak and breakStart
\* change; otherwise the DayRecord is unchanged.  So a break only ever begins
\* with the committed minutes strictly below the allowance.
C6_BreakInOnlyWithAllowance ==
  [][BreakInClick
       => IF State = "WORKING" /\ totalBreakUsed < totalAllowedBreak
          THEN /\ onBreak' /\ breakStart' = Clock
               /\ SumMinutes(breaks) < totalAllowedBreak
               /\ UNCHANGED << punchIn, punchOut, breaks >>
          ELSE UNCHANGED dayVars]_vars

\* C6 witness: Break In was refused while WORKING because the allowance was
\* used up to the minute
C6_Witness ==
  /\ mounted
  /\ lastEvent.op = "handleBreakIn" /\ lastEvent.result = "No break remaining"
  /\ State = "WORKING"
  /\ SumMinutes(breaks) = totalAllowedBreak

\* C7: a press of Break Out while not ON_BREAK changes neither the DayRecord
\* nor the summary nor anything stored.
C7_BreakOutRejectedOffBreak ==
  [][(BreakOutClick /\ State # "ON_BREAK")
       => UNCHANGED << dayVars, summary, storeVars, history >>]_vars

\* C7 witness: Break Out was pressed while working, with a session recorded
C7_Witness ==
  /\ mounted
  /\ lastEvent.op = "BreakOutClick" /\ lastEvent.result = "disabled"
  /\ State = "WORKING" /\ Len(breaks) = 1

\* C8: after an accepted Punch In, punchIn is the current instant, punchOut
\* and breakStart are null, breaks is empty, onBreak is false and the summary
\* is null.
C8_PunchInResets ==
  lastEvent.op = "handlePunchIn"
    => /\ punchIn = Clock /\ punchOut = NULL /\ breaks = << >>
       /\ onBreak = FALSE /\ breakStart = NULL /\ summary = << >>

\* C8 witness: Punch In was accepted on a completed day, later than that
\* day's punch-in
C8_Witness ==
  /\ mounted
  /\ lastEvent.op = "handlePunchIn" /\ lastEvent.from = "Day Complete"
  /\ punchIn = Clock /\ tk > 1 /\ breaks = << >>

\* C9: onBreak implies that breakStart is set, punchOut is null and punchIn
\* is set.
C9_OnBreakInvariant ==
  onBreak => (breakStart # NULL /\ punchOut = NULL /\ punchIn # NULL)

\* C10: after a rollover that found the stored day marker different from the
\* current calendar day, the live DayRecord and the summary are empty, the
\* stored marker is the current day, and the stored DayRecord is absent or
\* empty.
C10_RolloverResets ==
  (mounted /\ lastEvent.result = "rollover")
    => /\ Live = EmptyDay /\ summary = << >>
       /\ stDate = DateString(Clock)
       /\ (stRec = << >> \/ stRec = << Stored(EmptyDay) >>)

\* C10 witness: the periodic check rolled over a day that was in progress
C10_Witness ==
  /\ mounted
  /\ lastEvent.op = "check" /\ lastEvent.result = "rollover"
  /\ lastEvent.from = "Working"
  /\ Live = EmptyDay /\ stDate = DateString(Clock)

\* C11: rollover is idempotent.  In the state a rollover (at startup or by the
\* periodic check) has left, the periodic check cannot change History in
\* memory or in the store, nor the DayRecord, nor the stored day marker.
C11_RolloverIdempotent ==
  (mounted /\ lastEvent.result = "rollover")
    => ~ENABLED (MidnightCheck /\ ~UNCHANGED << history, stHist, dayVars, stDate >>)

\* C11 witness: the startup rollover found a stored day and a stored History
\* marker of an earlier day; the periodic check is due next
C11_Witness ==
  /\ mounted
  /\ lastEvent.op = "load" /\ lastEvent.result = "rollover"
  /\ stDate = DateString(Clock) /\ stDate > 0
  /\ ENABLED MidnightCheck

\* the History a rollover starts from: the one in memory while the page is
\* open, the stored one when the page is being opened
PrevHistory == IF mounted THEN history ELSE StoredHistory

\* h is g, or g with one entry appended that holds a punch or a break
GrownByOne(g, h) ==
  \/ h = g
  \/ /\ Len(h) = Len(g) + 1
     /\ SubSeq(h, 1, Len(g)) = g
     /\ LET e == h[Len(h)]
        IN e.punchIn # NULL \/ e.punchOut # NULL \/ Len(e.breaks) > 0

C13_SummaryIsComputed ==
  /\ summary = computeSummaryObject(punchIn, punchOut, breaks)
  /\ (summary = << >>) <=> (punchIn = NULL \/ punchOut = NULL)
  /\ summary # << >> => summary[1].breakMinutes = SumMinutes(breaks)

\* C13 witness: on a COMPLETED day the start of the 40 minute break was edited
\* to 08:45, and the summary counts the 175 minutes of the edited break
C13_Witness ==
  /\ mounted
  /\ lastEvent.op = "saveEdit" /\ lastEvent.result = "break"
  /\ lastEvent.from = "Day Complete"
  /\ Len(breaks) = 1 /\ breaks[1].minutes = 175
  /\ GetHours(breaks[1].start) = 8
  /\ summary # << >> /\ summary[1].breakMinutes = 175

\* C14: saving an edit whose value is not a time (a text that does not parse,
\* or nothing) closes the edit and leaves punchIn, punchOut and every break's
\* start, end and minutes as they were.
C14_UnparsableEditRetainsValue ==
  [][(SaveEditClick /\ lastEvent'.result \in {"unparsed", "empty"})
       => /\ editMode' = NoEdit
          /\ UNCHANGED << punchIn, punchOut, breaks >>]_vars

\* the instant in the DayRecord r that the edit em is about, NULL if none
FieldOf(r, em) ==
  IF em.type = "punchIn" THEN r.punchIn
  ELSE IF em.type = "punchOut" THEN r.punchOut
  ELSE IF em.type = "break" /\ em.index \in 1..Len(r.breaks)
       THEN IF em.field = "start" THEN r.breaks[em.index].start
            ELSE r.breaks[em.index].end
  ELSE NULL

\* C15: a saved edit with a time value puts the edited instant (punchIn,
\* punchOut, or the start or end of a break) on the calendar day of the value
\* it had, at a whole minute.
C15_EditKeepsCalendarDay ==
  [][(SaveEditClick /\ lastEvent'.result \in {"punchIn", "punchOut", "break"}
        /\ FieldOf(Live, editMode) # NULL)
       => LET new == FieldOf(Live', editMode)
          IN /\ new # NULL
             /\ DateString(new) = DateString(FieldOf(Live, editMode))
             /\ new = SetHours(new, GetHours(new), GetMinutes(new))]_vars

\* C16: every break session in breaks has minutes >= 0; with both endpoints
\* set its minutes are max(0, floor((end - start) / 60000)), so 0 when the
\* start is after the end; with an endpoint missing its minutes are 0.
C16_BreakMinutes ==
  \A i \in 1..Len(breaks) :
    LET b == breaks[i]
    IN /\ b.minutes >= 0
       /\ IF b.start # NULL /\ b.end # NULL
          THEN b.minutes = Max(0, ((b.end - b.start) * UnitMs) \div 60000)
          ELSE b.minutes = 0

\* C16 witness: an edit has moved the start of a break after its end, and the
\* session counts 0 minutes
C16_Witness ==
  /\ mounted
  /\ lastEvent.op = "saveEdit" /\ lastEvent.result = "break"
  /\ Len(breaks) >= 1 /\ breaks[1].start # NULL /\ breaks[1].end # NULL
  /\ breaks[1].start > breaks[1].end
  /\ breaks[1].minutes = 0

\* C17: persistence is write-through.  While the page is open, in every state
\* (each is the state after a callback and the effects it triggers) a
\* DayRecord is stored and loading it gives exactly the live punchIn,
\* punchOut, breaks, onBreak and breakStart.
C17_WriteThrough ==
  mounted => (stRec # << >> /\ Loaded(stRec[1]) = Live)

\* C17 witness: a break session was deleted from a day that keeps another
\* one, and the stored record is the live one
C17_Witness ==
  /\ mounted
  /\ lastEvent.op = "deleteBreak" /\ lastEvent.result = "ok"
  /\ Len(breaks) = 1 /\ punchIn # NULL
  /\ stRec = << Stored(Live) >>

(* --------------- startup on a profile with stored data ---------------- *)
\* DayRecords an earlier session can have stored: a day in progress, and a
\* completed day with one break
StoredDays ==
  { [EmptyDay EXCEPT !.punchIn = Grid(1)],
    [EmptyDay EXCEPT !.punchIn = Grid(1), !.punchOut = Grid(4),
                     !.breaks = << [start |-> Grid(2), end |-> Grid(3),
                                    minutes |-> minutesBetween(Grid(2), Grid(3))] >>] }

\* a well-formed stored History of one archived day
StoredEntries ==
  << HistoryEntry(0, [EmptyDay EXCEPT !.punchIn = Grid(1), !.punchOut = Grid(4)]) >>

\* The page is about to be opened on a browser profile whose three slots hold
\* what earlier sessions, or another writer of the origin's localStorage,
\* have left there: each of the DayRecord and the History absent, well-formed
\* or a text that is not JSON.
LoadInit ==
  /\ tk \in 1..MaxTick
  /\ punchIn = NULL /\ punchOut = NULL /\ breaks = << >>
  /\ onBreak = FALSE /\ breakStart = NULL
  /\ editMode = NoEdit /\ editValue = EmptyValue
  /\ summary = << >> /\ history = << >>
  /\ initedRef = FALSE
  /\ stRec \in {<< >>, << MalformedRecord >>} \cup {<< Stored(r) >> : r \in StoredDays}
  /\ stHist \in {<< >>, << MalformedHistory >>, << StoredEntries >>}
  /\ stDate \in {NULL} \cup {DateString(Grid(i)) : i \in 1..MaxTick}
  /\ mounted = FALSE
  /\ mountScope = NoScope
  /\ edits = 0
  /\ lastEvent = [op |-> "none", from |-> "Not Started", result |-> "none"]

\* opening and closing the page, the clock and the periodic check
LoadNext ==
  \/ Mount
  \/ Unmount
  \/ AdvanceClock
  \/ MidnightCheck

LoadSpec == LoadInit /\ [][LoadNext]_vars

\* C18: load is best-effort per record.  Startup always completes; an absent
\* or malformed stored DayRecord gives the empty DayRecord; an absent or
\* malformed stored History gives the empty History; and with a malformed
\* DayRecord a well-formed stored History is still loaded and a day marker
\* other than today still leads to the rollover.
C18_LoadBestEffort ==
  [][Mount
       => /\ mounted' /\ initedRef'
          /\ (stRec = << >> \/ stRec = << MalformedRecord >>) => Live' = EmptyDay
          /\ (stHist = << >> \/ stHist = << MalformedHistory >>) => history' = << >>
          /\ (stRec = << MalformedRecord >> /\ stHist = << StoredEntries >>)
               => history' = StoredEntries
          /\ (stRec = << MalformedRecord >> /\ stHist # << MalformedHistory >>
                /\ DayMismatch)
               => lastEvent'.result = "rollover"]_vars

\* whole minutes from p to 09:30 of p's calendar day, 0 from 09:30 on
EarlyOf(p) ==
  IF p # NULL /\ p < At(DateString(p), 9, 30, 0)
  THEN ((At(DateString(p), 9, 30, 0) - p) * UnitMs) \div 60000
  ELSE 0

\* C19: in every state the allowed break is 60 minutes plus the early arrival
\* minutes of the current punchIn; and Break In and Break Out decide by that
\* allowance: Break In while WORKING starts a break exactly when the used
\* minutes are below it, Break Out asks for confirmation (which can be
\* declined) only when the break takes the total over it.
C19_AllowanceFollowsPunchIn ==
  /\ [](/\ earlyArrivalMinutes = EarlyOf(punchIn)
        /\ totalAllowedBreak = 60 + EarlyOf(punchIn))
  /\ [][(BreakInClick /\ State = "WORKING")
          => (onBreak' <=> SumMinutes(breaks) < 60 + EarlyOf(punchIn))]_vars
  /\ [][(BreakOutClick /\ State = "ON_BREAK")
          => (lastEvent'.result \in {"cancelled", "exceeded"}
                <=> SumMinutes(breaks) + minutesBetween(breakStart, Clock)
                      > 60 + EarlyOf(punchIn))]_vars

\* C19 witness: punched in at 09:15 (allowance 75), punchIn was edited to
\* 08:45 during the break, and the break of 105 minutes ended within the
\* allowance of 105 of the edited punchIn
C19_Witness ==
  /\ mounted
  /\ lastEvent.op = "handleBreakOut" /\ lastEvent.result = "ok"
  /\ punchIn # NULL /\ GetHours(punchIn) = 8 /\ GetMinutes(punchIn) = 45
  /\ totalAllowedBreak = 105
  /\ Len(breaks) = 1 /\ breaks[1].minutes = 105

\* the break minutes used: those of the committed sessions plus, while on
\* break, the whole minutes from breakStart to now
BreakUsedMinutes ==
  SumMinutes(breaks) + (IF onBreak THEN minutesBetween(breakStart, now) ELSE 0)

Min(a, b) == IF a <= b THEN a ELSE b

\* C20: in every state the used break minutes are BreakUsedMinutes, the
\* remaining minutes plus min(used, allowed) are the allowance, the remaining
\* minutes are not negative, the exceeded minutes are max(0, used - allowed),
\* and the break counts as exceeded exactly when the exceeded minutes are
\* positive.
C20_BreakAccounting ==
  /\ totalBreakUsed = BreakUsedMinutes
  /\ breakRemainingMinutes + Min(BreakUsedMinutes, totalAllowedBreak)
       = totalAllowedBreak
  /\ breakRemainingMinutes >= 0
  /\ exceededMinutes = Max(0, BreakUsedMinutes - totalAllowedBreak)
  /\ isBreakExceeded <=> exceededMinutes > 0

\* C20 witness: a second break is running and has taken the used minutes
\* over the allowance
C20_Witness ==
  /\ mounted /\ onBreak /\ Len(breaks) = 1 /\ breaks[1].minutes > 0
  /\ Clock > breakStart
  /\ SumMinutes(breaks) < totalAllowedBreak
  /\ isBreakExceeded /\ exceededMinutes > 0 /\ breakRemainingMinutes = 0

\* the minutes of the first n sessions of brks, added up
RECURSIVE MinutesUpTo(_, _)
MinutesUpTo(brks, n) ==
  IF n = 0 THEN 0 ELSE MinutesUpTo(brks, n - 1) + brks[n].minutes

\* C21: computeSummaryObject of the current punchIn, punchOut and breaks is
\* null when an endpoint is missing; otherwise its office minutes are the
\* whole minutes from punchIn to punchOut (0 if punchOut is earlier), its
\* break minutes the sum of all session minutes, not capped at the allowance,
\* its work minutes max(0, office - break), and its required minutes 420.
C21_SummaryFields ==
  LET s == computeSummaryObject(punchIn, punchOut, breaks)
      office == Max(0, ((punchOut - punchIn) * UnitMs) \div 60000)
      brk == MinutesUpTo(breaks, Len(breaks))
  IN IF punchIn = NULL \/ punchOut = NULL THEN s = << >>
     ELSE /\ s # << >>
          /\ s[1].totalOfficeMinutes = office
          /\ s[1].breakMinutes = brk
          /\ s[1].totalWork = Max(0, office - brk)
          /\ s[1].requiredMinutes = 420

\* C21 witness: a completed day whose breaks went over the allowance, and
\* the work minutes are the office minutes less all of the break minutes
C21_Witness ==
  /\ mounted /\ punchIn # NULL /\ punchOut # NULL
  /\ SumMinutes(breaks) > totalAllowedBreak
  /\ summary # << >>
  /\ summary[1].breakMinutes = SumMinutes(breaks)
  /\ summary[1].totalWork > 0
  /\ summary[1].totalWork = summary[1].totalOfficeMinutes - SumMinutes(breaks)

\* the instants the current state holds: the wall clock, the punches, the
\* start of the running break and the endpoints of the recorded sessions
Instants ==
  ({Clock, punchIn, punchOut, breakStart}
     \cup {breaks[i].start : i \in 1..Len(breaks)}
     \cup {breaks[i].end : i \in 1..Len(breaks)}) \ {NULL}

\* C22: for all instants a <= b of a state, minutesBetween(a, b) is
\* floor((b - a) / 60000) in milliseconds; for a > b it is 0; it is never
\* negative.
C22_MinutesBetween ==
  \A a \in Instants, b \in Instants :
    /\ a <= b => minutesBetween(a, b) = ((b - a) * UnitMs) \div 60000
    /\ a > b => minutesBetween(a, b) = 0
    /\ minutesBetween(a, b) >= 0

\* C22 witness: the state holds two instants that are a whole number of
\* minutes and 30 seconds apart, so the floor and the order both matter
C22_Witness ==
  /\ mounted
  /\ \E a \in Instants, b \in Instants :
       /\ a < b /\ ((b - a) * UnitMs) % 60000 = 30000
       /\ minutesBetween(a, b) > 0 /\ minutesBetween(b, a) = 0

\* the DayRecord along the scenario: punched in at 09:15, on break from
\* 11:00, back at 11:40, punched out at 17:15
ScenarioIn == [EmptyDay EXCEPT !.punchIn = At(0, 9, 15, 0)]
ScenarioOnBreak ==
  [ScenarioIn EXCEPT !.onBreak = TRUE, !.breakStart = At(0, 11, 0, 0)]
ScenarioBack ==
  [ScenarioIn EXCEPT !.breaks = << [start |-> At(0, 11, 0, 0),
                                    end |-> At(0, 11, 40, 0), minutes |-> 40] >>]
ScenarioOut == [ScenarioBack EXCEPT !.punchOut = At(0, 17, 15, 0)]

\* C23: Punch In at 09:15 on a day not started, Break In at 11:00, Break Out
\* at 11:40 and Punch Out at 17:15 are each accepted (Break Out without a
\* confirmation) and give early arrival 15 and allowance 75, one session of
\* 40 minutes, 35 minutes remaining, and the summary 480 / 40 / 440 / 420.
C23_Scenario ==
  [][/\ (PunchInClick /\ Clock = At(0, 9, 15, 0) /\ State = "NOT_STARTED")
          => /\ Live' = ScenarioIn
             /\ earlyArrivalMinutes' = 15 /\ totalAllowedBreak' = 75
     /\ (BreakInClick /\ Clock = At(0, 11, 0, 0) /\ Live = ScenarioIn)
          => Live' = ScenarioOnBreak
     /\ (BreakOutClick /\ Clock = At(0, 11, 40, 0) /\ Live = ScenarioOnBreak)
          => /\ Live' = ScenarioBack /\ lastEvent'.result = "ok"
             /\ totalBreakUsed' = 40 /\ breakRemainingMinutes' = 35
     /\ (PunchOutClick /\ Clock = At(0, 17, 15, 0) /\ Live = ScenarioBack)
          => /\ Live' = ScenarioOut
             /\ summary' = << [totalOfficeMinutes |-> 480, breakMinutes |-> 40,
                               totalWork |-> 440, requiredMinutes |-> 420] >>
             /\ summary'[1].totalWork >= summary'[1].requiredMinutes]_vars

\* C23 witness: the scenario has run to its end
C23_Witness ==
  /\ mounted /\ Clock = At(0, 17, 15, 0)
  /\ lastEvent.op = "handlePunchOut" /\ lastEvent.result = "ok"
  /\ Live = ScenarioOut
  /\ summary # << >> /\ summary[1].totalWork = 440

\* a punch, a break or an edit by the user
UserMutation ==
  \/ PunchInClick
  \/ PunchOutClick
  \/ BreakInClick
  \/ BreakOutClick
  \/ SaveEditClick
  \/ DeleteBreakClick

\* C24: a punch, a break or an edit made while the DayRecord holds data and
\* the stored day marker is not the current calendar day leaves the marker as
\* it is, so the next periodic check still finds the mismatch.
C24_MutationKeepsDayMarker ==
  [][(UserMutation /\ DayMismatch /\ HasData(Live))
       => (stDate' = stDate /\ DayMismatch')]_vars

\* C25: when the page is opened with a stored DayRecord that holds data and
\* a stored day marker equal to the current calendar day, the live DayRecord
\* after startup is the stored one, and the mount effects (load, then
\* auto-save), run once or twice, leave the stored record as it was.
C25_RestartRoundTrip ==
  [][(Mount /\ stRec # << >> /\ stDate = DateString(Clock)
        /\ HasData(Loaded(stRec[1])))
       => /\ Live' = Loaded(stRec[1])
          /\ stRec' = stRec
          /\ MountEffects(Scope, Queue).stRec = stRec
          /\ MountEffects(Scope, MountEffects(Scope, Queue)).stRec = stRec]_vars

\* C26: an accepted Break Out appends one session, from breakStart to the
\* current instant with the whole minutes between them, at the end of breaks
\* and leaves punchIn, punchOut and the sessions recorded before unchanged;
\* an accepted Break In sets onBreak and breakStart and leaves punchIn,
\* punchOut and breaks unchanged.
C26_BreakFrames ==
  [][/\ (BreakOutClick /\ lastEvent'.op = "handleBreakOut"
          /\ lastEvent'.result \in {"ok", "exceeded"})
          => /\ Len(breaks') = Len(breaks) + 1
             /\ SubSeq(breaks', 1, Len(breaks)) = breaks
             /\ breaks'[Len(breaks')] =
                  [start |-> breakStart, end |-> Clock,
                   minutes |-> Max(0, ((Clock - breakStart) * UnitMs) \div 60000)]
             /\ UNCHANGED << punchIn, punchOut >>
     /\ (BreakInClick /\ lastEvent'.op = "handleBreakIn" /\ lastEvent'.result = "ok")
          => /\ UNCHANGED << punchIn, punchOut, breaks >>
             /\ onBreak' /\ breakStart' = Clock]_vars

\* C26 witness: a second break was committed within the allowance, after a
\* first one that is still in place
C26_Witness ==
  /\ mounted
  /\ lastEvent.op = "handleBreakOut" /\ lastEvent.result = "ok"
  /\ Len(breaks) = 2 /\ breaks[2].end = Clock /\ breaks[2].minutes > 0
  /\ breaks[1].end # NULL /\ breaks[1].end < breaks[2].end
  /\ punchIn # NULL /\ punchOut = NULL

\* C27: deleteBreak, clearToday and clearAll with the confirmation declined
\* leave the DayRecord, History and everything stored unchanged; clearToday
\* confirmed empties the DayRecord and leaves History, live and stored,
\* unchanged; deleteBreak confirmed for the session at index leaves the
\* sessions before it and after it, in their order, and nothing else changes
\* in the DayRecord.
C27_ConfirmedDeletes ==
  [][/\ ((DeleteBreakClick \/ ClearTodayClick \/ ClearAllClick)
           /\ lastEvent'.result = "cancelled")
          => UNCHANGED << dayVars, history, storeVars >>
     /\ (ClearTodayClick /\ lastEvent'.result = "ok")
          => (Live' = EmptyDay /\ UNCHANGED << history, stHist >>)
     /\ \A index \in 1..Len(breaks) :
          (DeleteBreakClick /\ deleteBreak(index, TRUE))
            => /\ breaks' = [i \in 1..(Len(breaks) - 1) |->
                               IF i < index THEN breaks[i] ELSE breaks[i + 1]]
               /\ UNCHANGED << punchIn, punchOut, onBreak, breakStart,
                               history, stHist >>]_vars

\* C27 witness: of two recorded sessions the first was deleted and the later
\* one is left
C27_Witness ==
  /\ mounted
  /\ lastEvent.op = "deleteBreak" /\ lastEvent.result = "ok"
  /\ Len(breaks) = 1 /\ punchIn # NULL
  /\ breaks[1].start # NULL /\ breaks[1].start > punchIn
  /\ breaks[1].minutes > 0

====
